---------------------------- MODULE Spec2Model ----------------------------
(***************************************************************************)
(* BatterySim: the browser-side simulation engine.                         *)
(*                                                                         *)
(* The repository holds two variants of the engine, each a Python program  *)
(* embedded in a JavaScript loader:                                        *)
(*   "docs"  docs/scripts/pyodide_loader.js   (6-component state vector)   *)
(*   "plot"  batterymodel/scripts/plot.js     (7-component state vector)   *)
(* The variable `engine` says which variant a run executes.                *)
(*                                                                         *)
(* Numbers.  The code computes in IEEE doubles; the model computes in      *)
(* fixed point, every quantity an integer count of a unit:                 *)
(*   voltage mV, current mA, resistance mOhm, temperature mK,              *)
(*   soc 1e-6, time ms, capacity 0.01 Ah, mass and c 0.1, k_cool 0.1/s,    *)
(*   k0 1e-7, Ea J/mol, Rtr mOhm, Ctr F, freq Hz,                          *)
(*   sei  k0-unit * 2^-ExpBits.                                            *)
(* Quotients truncate toward zero.  exp and sin are piecewise-linear /     *)
(* rational approximations with the sign and monotonicity of the real      *)
(* functions.  A value that numpy would make inf or nan is not a number of *)
(* the model: the state vector carries the flag `fin`.                     *)
(***************************************************************************)
EXTENDS Integers, Sequences, FiniteSets, TLC

VARIABLES
    engine,     \* which variant of the engine runs: "docs" or "plot"
    policy,     \* the policy identifier handed to run_simulation
    p,          \* the decoded parameter object: a function from key to value
    pc,         \* "start" | "loop" | "done" | "plotted" | "unparsed" | "error"
    y,          \* the state vector [V, I, R, T, soc, sei, Vc, fin]
    t,          \* simulated time
    iter,       \* iterations of the driver loop begun so far
    out,        \* the output buffers: a function from result key to sequence
    err,        \* the exception that ended the run, "" when none
    page        \* the JavaScript side: loader state and runSimulation calls

simVars == <<engine, policy, p, pc, y, t, iter, out, err>>
vars == <<engine, policy, p, pc, y, t, iter, out, err, page>>

---------------------------------------------------------------------------
(* Bounds of the model *)

\* Driver iterations explored per run.
MaxIter == 6

---------------------------------------------------------------------------
(* Fixed-point arithmetic *)

Abs(a) == IF a < 0 THEN -a ELSE a

\* a / b truncated toward zero; b # 0.
Quot(a, b) ==
    LET q == Abs(a) \div Abs(b)
    IN  IF (a < 0) = (b < 0) THEN q ELSE -q

\* Python's a % b on numbers: the result has the sign of b; b # 0.
PyMod(a, b) == IF b > 0 THEN a % b ELSE -((-a) % (-b))

Min(a, b) == IF a <= b THEN a ELSE b
Max(a, b) == IF a >= b THEN a ELSE b

RECURSIVE Pow2(_)
Pow2(n) == IF n <= 0 THEN 1 ELSE 2 * Pow2(n - 1)

\* a * b / c for a, b >= 0 and 0 < c, computed without leaving the integers
\* of the model when (c - 1) * b does not.
MulDiv(a, b, c) == (a \div c) * b + ((a % c) * b) \div c

\* a * b / c truncated toward zero, for any signs of a and b and 0 < c:
\* Quot(a * b, c) computed without the product a * b.
Scaled(a, b, c) ==
    LET m == MulDiv(Abs(a), Abs(b), c)
    IN  IF (a < 0) = (b < 0) THEN m ELSE -m

\* Fractional bits of the fixed-point exponential, and the largest power of
\* two the integers of the model hold.
ExpBits == 13 + 13
IntBits == 15 + 15

\* exp(x) * 2^ExpBits for x in thousandths: 2^(x / ln 2), linear between
\* consecutive powers of two, 0 below the range and saturated above it.
ExpQ(xMilli) ==
    LET yMilli == (xMilli * 1443) \div 1000
        n == yMilli \div 1000
        f == yMilli % 1000
        k == ExpBits + n
        P == Pow2(k)
    IN  IF k < 0 THEN 0
        ELSE IF k > IntBits THEN Pow2(IntBits) + (Pow2(IntBits) \div 1000) * 999
        ELSE IF k >= 20 THEN P + (P \div 1000) * f
        ELSE P + (P * f) \div 1000

\* |sin(2 pi x)| * 1000 for x in thousandths of a turn (Bhaskara's rational
\* approximation of the half wave).
AbsSinTurn(xMilli) ==
    LET h == (2 * (xMilli % 1000)) % 1000      \* position in the half wave
        w == (h * (1000 - h)) \div 1000        \* h(1-h) in thousandths
    IN  (16 * w * 1000) \div (5000 - 4 * w)

---------------------------------------------------------------------------
(* Parameters *)

\* The keys each engine reads from the parameter object.
DocsKeys ==
    {"soc0", "T0", "t_max", "dt", "R0", "mass", "c", "k_cool", "C_nom",
     "T_amb", "k0", "Ea", "Vset", "Iset", "t_on", "t_off", "Iamp", "freq"}

PlotKeys ==
    {"dt", "soc0", "R0", "T0", "C_nom", "mass", "c", "k_cool", "Tamb",
     "sei_model", "k0", "Ea", "Vset", "Iset", "ton", "toff", "Rtr", "Ctr"}

KeysOf(e) == IF e = "docs" THEN DocsKeys ELSE PlotKeys

\* The defaults of run_simulation's p.get(key, default), in the model's units.
DocsDefault ==
    [soc0 |-> 0, T0 |-> 298000, t_max |-> 4000000, dt |-> 500, R0 |-> 30,
     mass |-> 10, c |-> 5, k_cool |-> 30, C_nom |-> 20000, T_amb |-> 298000,
     k0 |-> 1, Ea |-> 30000, Vset |-> 3700, Iset |-> 25000, t_on |-> 2000,
     t_off |-> 250, Iamp |-> 60000, freq |-> 4]

\* p.get(k, default): the docs engine never fails on a missing key.
Get(prm, k) == IF k \in DOMAIN prm THEN prm[k] ELSE DocsDefault[k]

\* The params dict the docs engine builds from p (every key present).
DocsParams(prm) ==
    [k \in {"mass", "c", "k_cool", "C_nom", "T_amb", "k0", "Ea", "Vset",
             "Iset", "t_on", "t_off", "Iamp", "freq"} |-> Get(prm, k)]

---------------------------------------------------------------------------
(* OCV lookup *)

\* The breakpoint table, descending in soc: <<soc (1e-6), voltage (mV)>>.
OcvData ==
    << <<1000000, 3650>>, <<995000, 3450>>, <<990000, 3380>>,
       <<900000, 3350>>, <<800000, 3330>>, <<700000, 3300>>,
       <<600000, 3280>>, <<500000, 3260>>, <<400000, 3250>>,
       <<300000, 3230>>, <<200000, 3200>>, <<150000, 3050>>,
       <<95000, 3000>>, <<50000, 2800>>, <<5000, 2540>>, <<0, 2500>> >>

RECURSIVE OcvScan(_, _)
OcvScan(s, i) ==
    IF i > Len(OcvData) - 1 THEN OcvData[Len(OcvData)][2]
    ELSE LET s1 == OcvData[i][1]
             v1 == OcvData[i][2]
             s2 == OcvData[i + 1][1]
             v2 == OcvData[i + 1][2]
         IN  IF s2 <= s /\ s <= s1
             THEN v2 + Quot((s - s2) * (v1 - v2), s1 - s2)
             ELSE OcvScan(s, i + 1)

\* The lookup without the clamp of soc to [0, 1].
OcvUnclamped(soc) == OcvScan(soc, 1)

ocv_from_soc(soc) == OcvScan(Max(0, Min(1000000, soc)), 1)

---------------------------------------------------------------------------
(* Charging policies *)

\* The characters of the policy identifiers the model ranges over.
Chars ==
    ("CV" :> <<"C", "V">>) @@ ("CC" :> <<"C", "C">>)
    @@ ("CCCV" :> <<"C", "C", "C", "V">>)
    @@ ("Pulse" :> <<"P", "u", "l", "s", "e">>)
    @@ ("Sine" :> <<"S", "i", "n", "e">>)
    @@ ("CCVPulse" :> <<"C", "C", "V", "P", "u", "l", "s", "e">>)
    @@ ("CV_3.7V" :> <<"C", "V", "_", "3", ".", "7", "V">>)
    @@ ("CC_25A" :> <<"C", "C", "_", "2", "5", "A">>)
    @@ ("Pulse_50A" :> <<"P", "u", "l", "s", "e", "_", "5", "0", "A">>)
    @@ ("Sine_60A" :> <<"S", "i", "n", "e", "_", "6", "0", "A">>)
    @@ ("" :> << >>)
    @@ ("Idle" :> <<"I", "d", "l", "e">>)

PolicyNames == DOMAIN Chars

\* str.startswith
StartsWith(name, prefix) ==
    LET a == Chars[name]
        b == Chars[prefix]
    IN  Len(a) >= Len(b) /\ SubSeq(a, 1, Len(b)) = b

\* The branch of policy_voltage's if-chain that `name` takes.
DocsBranch(name) ==
    IF StartsWith(name, "CV") THEN "CV"
    ELSE IF StartsWith(name, "CC") THEN "CC"
    ELSE IF StartsWith(name, "Pulse") THEN "Pulse"
    ELSE IF StartsWith(name, "Sine") THEN "Sine"
    ELSE "OCV"

PlotBranch(name) ==
    IF name = "CV" THEN "CV"
    ELSE IF name = "CC" THEN "CC"
    ELSE IF name = "CCCV" THEN "CCCV"
    ELSE IF name = "CCVPulse" THEN "CCVPulse"
    ELSE "OCV"

Branch(e, name) == IF e = "docs" THEN DocsBranch(name) ELSE PlotBranch(name)

\* Iset * R in mV.
IR(i, r) == Quot(i * r, 1000)

\* docs policy_voltage(policy_name, t, V, R, soc, params).  err is the
\* exception the evaluation raises ("" when none).
DocsPolicyVoltage(name, tt, yy, prm) ==
    LET ocv == ocv_from_soc(yy.soc)
        b == DocsBranch(name)
        cycle == prm["t_on"] + prm["t_off"]
    IN  IF b = "CV" THEN [err |-> "", v |-> prm["Vset"]]
        ELSE IF b = "CC" THEN [err |-> "", v |-> IR(prm["Iset"], yy.R) + ocv]
        ELSE IF b = "Pulse" THEN
            IF cycle = 0 THEN [err |-> "ZeroDivisionError", v |-> 0]
            ELSE IF PyMod(tt, cycle) < prm["t_on"]
                 THEN [err |-> "", v |-> IR(prm["Iset"], yy.R) + ocv]
                 ELSE [err |-> "", v |-> ocv]
        ELSE IF b = "Sine" THEN
            [err |-> "",
             v |-> IR(Quot(Abs(prm["Iamp"]) * AbsSinTurn(prm["freq"] * tt), 1000),
                      yy.R) + ocv]
        ELSE [err |-> "", v |-> ocv]

\* Whether every key of ks is in the parameter object (a subscript of a
\* missing key raises KeyError).
Has(prm, ks) == ks \subseteq DOMAIN prm

\* plot policy_voltage(policy, t, y, params).
PlotPolicyVoltage(name, tt, yy, prm) ==
    LET ocv == ocv_from_soc(yy.soc)
        b == PlotBranch(name)
        keyErr == [err |-> "KeyError", v |-> 0]
    IN  IF b = "CV" THEN
            IF Has(prm, {"Vset"}) THEN [err |-> "", v |-> prm["Vset"]]
            ELSE keyErr
        ELSE IF b = "CC" THEN
            IF Has(prm, {"Iset"})
            THEN [err |-> "", v |-> IR(prm["Iset"], yy.R) + ocv]
            ELSE keyErr
        ELSE IF b = "CCCV" THEN
            IF ~Has(prm, {"Vset"}) THEN keyErr
            ELSE IF ocv < prm["Vset"] THEN
                IF Has(prm, {"Iset"})
                THEN [err |-> "", v |-> IR(prm["Iset"], yy.R) + ocv]
                ELSE keyErr
            ELSE [err |-> "", v |-> prm["Vset"]]
        ELSE IF b = "CCVPulse" THEN
            IF ~Has(prm, {"ton", "toff"}) THEN keyErr
            ELSE IF prm["ton"] + prm["toff"] = 0
            THEN [err |-> "ZeroDivisionError", v |-> 0]
            ELSE IF PyMod(tt, prm["ton"] + prm["toff"]) < prm["ton"] THEN
                IF Has(prm, {"Vset", "Iset"})
                THEN [err |-> "",
                      v |-> Min(prm["Vset"], IR(prm["Iset"], yy.R) + ocv)]
                ELSE keyErr
            ELSE [err |-> "", v |-> ocv]
        ELSE [err |-> "", v |-> ocv]

policy_voltage(e, name, tt, yy, prm) ==
    IF e = "docs" THEN DocsPolicyVoltage(name, tt, yy, prm)
    ELSE PlotPolicyVoltage(name, tt, yy, prm)

---------------------------------------------------------------------------
(* Derivatives (mechanisms) *)

\* Ohmic power I^2 R in mW.
Power(i, r) == Quot(Quot(Quot(i, 10) * Quot(i, 10), 100) * r, 100)

\* Ea / (Rgas * T) in thousandths, for |T| of at least 0.01 K.
ArrheniusArg(ea, temp) == Quot(Quot(ea * 1000, 8314) * 100000, Quot(temp, 10))

\* math.exp raises OverflowError above this argument (thousandths).
ExpOverflowMilli == 709782

\* kT = k0 * math.exp(-Ea / (Rgas * T)) for Ea > 0.  With T = 0 the Python
\* float quotient raises ZeroDivisionError (docs) and the numpy quotient is
\* -inf, whose exponential is 0 (plot).  With T < 0 the exponential either
\* raises OverflowError or is a finite number beyond the model's integers:
\* its product with k0 = 0 is 0, and with any other k0 "ModelRange" ends the
\* exploration of such a run, it is no exception of the code.
ArrheniusRate(e, k0v, ea, temp) ==
    IF temp = 0 THEN
        IF e = "docs" THEN [err |-> "ZeroDivisionError", v |-> 0]
        ELSE [err |-> "", v |-> 0]
    ELSE IF Quot(temp, 10) = 0 THEN
        IF temp > 0 THEN [err |-> "", v |-> 0]
        ELSE [err |-> "OverflowError", v |-> 0]
    ELSE LET x == ArrheniusArg(ea, temp)
         IN  IF -x > ExpOverflowMilli THEN [err |-> "OverflowError", v |-> 0]
             ELSE IF -x > 0 THEN
                 IF k0v = 0 THEN [err |-> "", v |-> 0]
                 ELSE [err |-> "ModelRange", v |-> 0]
             ELSE [err |-> "", v |-> k0v * ExpQ(-x)]

\* (1 + 2 soc^2) and (1 + 0.1 |I|) in thousandths.
SocStress(soc) == 1000 + Quot(2 * Quot(soc, 1000) * Quot(soc, 1000), 1000)
CurrentStress(i) == 1000 + Quot(Abs(i), 10)

\* rate * f1 * f2 with the factors in thousandths; the sign is the rate's.
Stressed(rate, f1, f2) ==
    LET a == MulDiv(MulDiv(Abs(rate), f1, 1000), f2, 1000)
    IN  IF rate < 0 THEN -a ELSE a

ZeroDeriv == [err |-> "", fin |-> TRUE, dV |-> 0, dI |-> 0, dR |-> 0,
              dT |-> 0, dSOC |-> 0, dSEI |-> 0, dVc |-> 0, Vsrc |-> 0, I |-> 0]

Raise(e) == [ZeroDeriv EXCEPT !.err = e]

\* docs derivatives(y, t, policy_name, params): the rates of T (mK/s),
\* soc (1e-6/s) and sei, the source voltage and the instantaneous current.
\* The rates of V, I and R are the literal zeros of the code.
DocsDerivatives(yy, tt, name, prm) ==
    LET pv == DocsPolicyVoltage(name, tt, yy, prm)
        Iinst == IF yy.R > 0 THEN Quot((pv.v - yy.V) * 1000, yy.R) ELSE 0
        mc == prm["mass"] * prm["c"]
        kT == ArrheniusRate("docs", prm["k0"], prm["Ea"], yy.T)
        socClip == Max(0, Min(1000000, yy.soc))
    IN  IF pv.err # "" THEN Raise(pv.err)
        ELSE IF prm["C_nom"] = 0 \/ mc = 0 THEN Raise("ZeroDivisionError")
        ELSE IF kT.err # "" THEN Raise(kT.err)
        ELSE [err |-> "", fin |-> TRUE,
              dV |-> 0, dI |-> 0, dR |-> 0,
              dT |-> Quot(Power(Iinst, yy.R) * 100, mc)
                     + Quot(Quot(Iinst * (pv.v - yy.V), 1000) * 100, mc)
                     - Scaled(yy.T - prm["T_amb"], prm["k_cool"], 10),
              dSOC |-> Quot(Iinst * 250, prm["C_nom"] * 9),
              dSEI |-> Stressed(kT.v, SocStress(socClip), CurrentStress(Iinst)),
              dVc |-> 0,
              Vsrc |-> pv.v, I |-> Iinst]

\* The keys plot's derivatives subscripts after the policy's own.
PlotDerivKeys(prm) ==
    {"C_nom", "mass", "c", "k_cool", "Tamb", "sei_model", "k0", "Ea",
     "Rtr", "Ctr"}
    \cup (IF "sei_model" \in DOMAIN prm /\ prm["sei_model"] = "full"
          THEN {"Vset"} ELSE {})

\* plot derivatives(y, t, policy, params).  The quotients are numpy's: a
\* zero R gives inf or nan (fin = FALSE) where Python's would raise.  The
\* parameter families keep plot's other divisors away from zero.
PlotDerivatives(yy, tt, name, prm) ==
    LET pv == PlotPolicyVoltage(name, tt, yy, prm)
        Ival == Quot((pv.v - yy.V - yy.Vc) * 1000, yy.R)
        mc == prm["mass"] * prm["c"]
        kT == ArrheniusRate("plot", prm["k0"], prm["Ea"], yy.T)
        gap == Quot(prm["Vset"] - yy.V, 2)
        stress == Quot(ExpQ(gap), Pow2(ExpBits) \div 1000)
    IN  IF pv.err # "" THEN Raise(pv.err)
        ELSE IF ~Has(prm, PlotDerivKeys(prm)) THEN Raise("KeyError")
        ELSE IF kT.err # "" THEN Raise(kT.err)
        ELSE IF prm["sei_model"] = "full" /\ gap > ExpOverflowMilli
        THEN Raise("OverflowError")
        ELSE IF yy.R = 0 THEN [ZeroDeriv EXCEPT !.fin = FALSE]
        ELSE [err |-> "", fin |-> TRUE,
              dV |-> 0, dI |-> 0, dR |-> 0,
              dT |-> Quot(Power(Ival, yy.R) * 100, mc)
                     - Scaled(yy.T - prm["Tamb"], prm["k_cool"], 10),
              dSOC |-> Quot(Ival * 250, prm["C_nom"] * 9),
              dSEI |-> IF prm["sei_model"] = "full"
                       THEN Stressed(kT.v, stress, CurrentStress(Ival))
                       ELSE Stressed(kT.v, SocStress(yy.soc), CurrentStress(Ival)),
              dVc |-> Quot(-yy.Vc * 1000, prm["Rtr"] * prm["Ctr"])
                      + Quot(Ival, prm["Ctr"]),
              Vsrc |-> pv.v, I |-> Ival]

derivatives(e, yy, tt, name, prm) ==
    IF e = "docs" THEN DocsDerivatives(yy, tt, name, prm)
    ELSE PlotDerivatives(yy, tt, name, prm)

---------------------------------------------------------------------------
(* RK4 integrator *)

\* y + (h / den) * k with the current integrated too, at the rate of soc,
\* instead of carried through.
AdvanceCurrent(yy, k, h, den) ==
    [yy EXCEPT !.I = @ + Scaled(k.dSOC, h, den),
               !.T = @ + Scaled(k.dT, h, den),
               !.soc = @ + Scaled(k.dSOC, h, den),
               !.sei = @ + Scaled(k.dSEI, h, den),
               !.Vc = @ + Scaled(k.dVc, h, den)]

\* y + (h / den) * k with the resistance integrated too, following the
\* temperature (1 mOhm per K), instead of carried through.
AdvanceResistance(yy, k, h, den) ==
    [yy EXCEPT !.R = @ + Quot(Scaled(k.dT, h, den), 1000),
               !.T = @ + Scaled(k.dT, h, den),
               !.soc = @ + Scaled(k.dSOC, h, den),
               !.sei = @ + Scaled(k.dSEI, h, den),
               !.Vc = @ + Scaled(k.dVc, h, den)]

\* y + (h / den) * k on the state vector, component by component.
Advance(yy, k, h, den) ==
    [yy EXCEPT !.V = @ + Scaled(k.dV, h, den),
               !.I = @ + Scaled(k.dI, h, den),
               !.R = @ + Scaled(k.dR, h, den),
               !.T = @ + Scaled(k.dT, h, den),
               !.soc = @ + Scaled(k.dSOC, h, den),
               !.sei = @ + Scaled(k.dSEI, h, den),
               !.Vc = @ + Scaled(k.dVc, h, den)]

\* k1 + 2 k2 + 2 k3 + k4, divided by 6.
Blend(k1, k2, k3, k4) ==
    [dV |-> Quot(k1.dV + 2 * k2.dV + 2 * k3.dV + k4.dV, 6),
     dI |-> Quot(k1.dI + 2 * k2.dI + 2 * k3.dI + k4.dI, 6),
     dR |-> Quot(k1.dR + 2 * k2.dR + 2 * k3.dR + k4.dR, 6),
     dT |-> Quot(k1.dT + 2 * k2.dT + 2 * k3.dT + k4.dT, 6),
     dSOC |-> Quot(k1.dSOC + 2 * k2.dSOC + 2 * k3.dSOC + k4.dSOC, 6),
     dSEI |-> Quot(k1.dSEI + 2 * k2.dSEI + 2 * k3.dSEI + k4.dSEI, 6),
     dVc |-> Quot(k1.dVc + 2 * k2.dVc + 2 * k3.dVc + k4.dVc, 6)]

\* F applied to the value of v, with v evaluated once.
Eval(v, F(_)) == CHOOSE r \in {F(x) : x \in {v}} : TRUE

\* rk4_step / rk4: [err, y].  A stage that raises ends the step; a stage
\* that is not finite makes the whole vector not finite.
rk4(e, yy, tt, h, name, prm) ==
    Eval(derivatives(e, yy, tt, name, prm), LAMBDA k1 :
      IF k1.err # "" THEN [err |-> k1.err, y |-> yy]
      ELSE IF ~k1.fin THEN [err |-> "", y |-> [yy EXCEPT !.fin = FALSE]]
      ELSE
    Eval(derivatives(e, Advance(yy, k1, h, 2000), tt + Quot(h, 2), name, prm),
         LAMBDA k2 :
      IF k2.err # "" THEN [err |-> k2.err, y |-> yy]
      ELSE
    Eval(derivatives(e, Advance(yy, k2, h, 2000), tt + Quot(h, 2), name, prm),
         LAMBDA k3 :
      IF k3.err # "" THEN [err |-> k3.err, y |-> yy]
      ELSE
    Eval(derivatives(e, Advance(yy, k3, h, 1000), tt + h, name, prm),
         LAMBDA k4 :
      IF k4.err # "" THEN [err |-> k4.err, y |-> yy]
      ELSE [err |-> "",
            y |-> Advance(yy, Blend(k1, k2, k3, k4), h, 1000)]))))

---------------------------------------------------------------------------
(* Main simulation *)

\* The loop's SOC thresholds (1e-6).
DocsThreshold == 999000
PlotThreshold == 900000

\* The keys of the result object each engine returns.
DocsResultKeys == {"t", "V", "I", "R", "T", "SOC", "SEI"}
PlotResultKeys ==
    {"time", "voltage", "current", "temperature", "soc", "sei", "transient"}

EmptyOut(e) ==
    [k \in IF e = "docs" THEN DocsResultKeys ELSE PlotResultKeys |-> << >>]

\* One sample appended with the voltage at the cell's terminals under
\* load, OCV + I * R, in the place of the stored V.
DocsAppendLoaded(o, tt, yy) ==
    [o EXCEPT !["t"] = Append(@, tt),
              !["V"] = Append(@, yy.V + IR(yy.I, yy.R)),
              !["I"] = Append(@, yy.I), !["R"] = Append(@, yy.R),
              !["T"] = Append(@, yy.T), !["SOC"] = Append(@, yy.soc),
              !["SEI"] = Append(@, yy.sei)]

\* One sample appended to every buffer.
DocsAppend(o, tt, yy) ==
    [o EXCEPT !["t"] = Append(@, tt), !["V"] = Append(@, yy.V),
              !["I"] = Append(@, yy.I), !["R"] = Append(@, yy.R),
              !["T"] = Append(@, yy.T), !["SOC"] = Append(@, yy.soc),
              !["SEI"] = Append(@, yy.sei)]

PlotAppend(o, tt, yy) ==
    [o EXCEPT !["time"] = Append(@, tt), !["voltage"] = Append(@, yy.V),
              !["current"] = Append(@, yy.I),
              !["temperature"] = Append(@, yy.T),
              !["soc"] = Append(@, yy.soc), !["sei"] = Append(@, yy.sei),
              !["transient"] = Append(@, yy.Vc)]

\* y = np.array([ocv_from_soc(soc0), 0, R0, T0, soc0, 0, 0])
InitialState(soc0, r0, t0) ==
    [V |-> ocv_from_soc(soc0), I |-> 0, R |-> r0, T |-> t0, soc |-> soc0,
     sei |-> 0, Vc |-> 0, fin |-> TRUE]

\* N = int(t_max / dt)
DocsN(prm) == Quot(Get(prm, "t_max"), Get(prm, "dt"))

\* The exception ends the run: nothing is returned.
Fail(e) ==
    /\ pc' = (IF e = "ModelRange" THEN "range" ELSE "error")
    /\ err' = e

\* docs run_simulation up to the loop.
DocsStart ==
    /\ engine = "docs" /\ pc = "start"
    /\ IF Get(p, "dt") = 0
       THEN /\ Fail("ZeroDivisionError")
            /\ UNCHANGED <<y, out>>
       ELSE /\ pc' = "loop"
            /\ y' = InitialState(Get(p, "soc0"), Get(p, "R0"), Get(p, "T0"))
            /\ out' = EmptyOut("docs")
            /\ err' = ""
    /\ t' = 0 /\ iter' = 0
    /\ UNCHANGED <<engine, policy, p, page>>

\* plot.js' cap on plotted points (declared, referenced nowhere).
MAX_POINTS == 5000

\* The iteration at which the runs that are followed from mid-run start.
MidStart == MAX_POINTS - 3

\* The iterations the model explores: the first MaxIter of a run, and
\* MaxIter more from MidStart on.
WithinHorizon(n) ==
    n < MaxIter \/ (MidStart <= n /\ n < MidStart + MaxIter)

\* Whether docs' for-loop runs another iteration.
DocsContinues == iter < DocsN(p) /\ y.soc < DocsThreshold

\* One iteration of docs' loop: append the sample, step, refresh I and V,
\* advance t.
DocsStep ==
    /\ engine = "docs" /\ pc = "loop" /\ DocsContinues /\ WithinHorizon(iter)
    /\ \E prm \in {DocsParams(p)}, h \in {Get(p, "dt")} :
       \E r \in {rk4("docs", y, t, h, policy, prm)} :
       \E d \in {IF r.err = "" THEN derivatives("docs", r.y, t, policy, prm)
                  ELSE Raise(r.err)} :
           /\ out' = DocsAppend(out, t, y)
           /\ iter' = iter + 1
           /\ IF d.err # "" THEN Fail(d.err) /\ UNCHANGED <<y, t>>
              ELSE /\ y' = [r.y EXCEPT !.I = d.I, !.V = ocv_from_soc(r.y.soc)]
                   /\ t' = t + h
                   /\ UNCHANGED <<pc, err>>
    /\ UNCHANGED <<engine, policy, p, page>>

\* return json.dumps(result)
DocsReturn ==
    /\ engine = "docs" /\ pc = "loop" /\ ~DocsContinues
    /\ pc' = "done"
    /\ UNCHANGED <<engine, policy, p, y, t, iter, out, err, page>>

\* plot run_simulation up to the loop.
PlotStart ==
    /\ engine = "plot" /\ pc = "start"
    /\ IF ~Has(p, {"dt", "soc0", "R0", "T0"})
       THEN /\ Fail("KeyError")
            /\ UNCHANGED <<y, out>>
       ELSE /\ pc' = "loop"
            /\ y' = InitialState(p["soc0"], p["R0"], p["T0"])
            /\ out' = EmptyOut("plot")
            /\ err' = ""
    /\ t' = 0 /\ iter' = 0
    /\ UNCHANGED <<engine, policy, p, page>>

\* while y[4] < 0.9 (a nan is not below 0.9).
PlotContinues == y.fin /\ y.soc < PlotThreshold

\* One iteration of plot's loop: take I from the state before the step,
\* step, overwrite I and V, append the sample, advance t.  With R = 0 and
\* dt > 0 the stepped soc is nan and ocv_from_soc(nan) is the table's first
\* voltage.
PlotStep ==
    /\ engine = "plot" /\ pc = "loop" /\ PlotContinues /\ iter < MaxIter
    /\ \E d \in {derivatives("plot", y, t, policy, p)} :
       \E r \in {IF d.err = "" THEN rk4("plot", y, t, p["dt"], policy, p)
                  ELSE [err |-> d.err, y |-> y]} :
       \E y1 \in {[r.y EXCEPT !.I = d.I,
                              !.V = ocv_from_soc(IF r.y.fin THEN r.y.soc
                                                 ELSE 1000000)]} :
           /\ iter' = iter + 1
           /\ IF r.err # "" THEN Fail(r.err) /\ UNCHANGED <<y, t, out>>
              ELSE /\ y' = y1
                   /\ out' = PlotAppend(out, t, y1)
                   /\ t' = t + p["dt"]
                   /\ UNCHANGED <<pc, err>>
    /\ UNCHANGED <<engine, policy, p, page>>

PlotReturn ==
    /\ engine = "plot" /\ pc = "loop" /\ ~PlotContinues
    /\ pc' = "done"
    /\ UNCHANGED <<engine, policy, p, y, t, iter, out, err, page>>

---------------------------------------------------------------------------
(* Plotting the returned result *)

\* data.k || []
FieldOr(data, k) == IF k \in DOMAIN data THEN data[k] ELSE << >>

\* The traces drawn by the plotResults definition in effect.  plot.js
\* declares plotResults twice at top level and the later declaration is
\* the one a call reaches; it is the text of docs/scripts/plot.js, which the
\* docs page loads next to pyodide_loader.js.
plotResults(data) ==
    [x |-> IF "t" \in DOMAIN data THEN data["t"] ELSE FieldOr(data, "T"),
     voltage |-> FieldOr(data, "V"),
     current |-> FieldOr(data, "I"),
     temperature |-> FieldOr(data, "T"),
     soc |-> FieldOr(data, "SOC"),
     sei |-> FieldOr(data, "SEI")]

\* runSimulation after the Python run returned: JSON.parse, plotResults,
\* the closing status.  json.dumps writes a nan as NaN, which JSON.parse
\* rejects: nothing is plotted, docs' catch block reports the error and
\* plot's status stays as it was.
HandleResult ==
    /\ pc = "done"
    /\ IF y.fin
       THEN /\ pc' = "plotted"
            /\ page' = [status |-> IF engine = "docs" THEN "Done"
                                   ELSE "Simulation complete",
                        traces |-> plotResults(out)]
       ELSE /\ pc' = "unparsed"
            /\ page' = [status |-> IF engine = "docs" THEN "Error"
                                   ELSE "Running simulation"]
    /\ UNCHANGED <<engine, policy, p, y, t, iter, out, err>>

---------------------------------------------------------------------------
(* The runs the model explores *)

\* What collectParams hands over when the form holds a small cell
\* (C_nom 0.01 Ah, Iset 6 A) and, for docs, a time cap of 2 s.
DocsBase ==
    [DocsDefault EXCEPT !.t_max = 2000, !.C_nom = 1, !.Iset = 6000,
                        !.Iamp = 6000, !.freq = 1]

PlotBase ==
    [dt |-> 200, soc0 |-> 0, R0 |-> 30, T0 |-> 298000, C_nom |-> 1,
     mass |-> 10, c |-> 5, k_cool |-> 30, Tamb |-> 298000,
     sei_model |-> "simplified", k0 |-> 1, Ea |-> 30000, Vset |-> 3700,
     Iset |-> 6000, ton |-> 2000, toff |-> 250, Rtr |-> 8, Ctr |-> 5000]

BaseOf(e) == IF e = "docs" THEN DocsBase ELSE PlotBase

\* Values the form's fields take in both engines, one field changed at a
\* time: start SOC at, below and above the thresholds; R0, dt and C_nom
\* outside their domains; set-points at and below the OCV curve; the SEI
\* rate constant at zero and below; a step cap handed over as max_steps
\* (and, for plot, a time cap as t_max), keys neither engine reads.
SharedChanges ==
    { << >>,
      [soc0 |-> 650000], [soc0 |-> 800000], [soc0 |-> 950000],
      [soc0 |-> 1000000],
      [R0 |-> -30], [R0 |-> 0], [C_nom |-> -1],
      [Vset |-> 3300, soc0 |-> 650000], [Vset |-> 2400],
      [Iset |-> 25000, soc0 |-> 800000], [k0 |-> 0], [k0 |-> -1],
      [max_steps |-> 2] }

\* A large cell (200 Ah) without SEI growth, started at 0 degrees Celsius in
\* an ambient of 25, stepped with dt = 2 s for up to 4 s.
ColdStart ==
    [T0 |-> 273000, dt |-> 2000, t_max |-> 4000, C_nom |-> 20000, k0 |-> 0]

DocsChanges ==
    SharedChanges
    \cup { [dt |-> -500], [dt |-> 0], [C_nom |-> 0], [t_on |-> 0],
           [t_on |-> 0, t_off |-> 0], [T0 |-> 290000], ColdStart }

PlotChanges ==
    SharedChanges
    \cup { [dt |-> -200], [dt |-> 0], [ton |-> 0], [ton |-> 0, toff |-> 0],
           [sei_model |-> "full"], [T0 |-> 290000], [t_max |-> 400] }

ChangesOf(e) == IF e = "docs" THEN DocsChanges ELSE PlotChanges

\* The sets of keys a caller leaves out: none, any one, or all.
Omissions(e) == {{}} \cup {{k} : k \in KeysOf(e)} \cup {KeysOf(e)}

\* The parameter object: the base with the changes made (keys the form
\* does not send included) and the omitted keys absent.
Params(e, ch, om) ==
    [k \in (KeysOf(e) \cup DOMAIN ch) \ om |->
        IF k \in DOMAIN ch THEN ch[k] ELSE BaseOf(e)[k]]

\* The state vector before run_simulation has built it.
NoState == InitialState(0, 0, 0)

\* The page before anything ran (the page model is further down).
NoPage == [status |-> ""]

Init ==
    /\ engine \in {"docs", "plot"}
    /\ policy \in PolicyNames
    /\ \E ch \in ChangesOf(engine), om \in Omissions(engine) :
          /\ ch = << >> \/ om = {}
          /\ p = Params(engine, ch, om)
    /\ pc = "start"
    /\ y = NoState
    /\ t = 0
    /\ iter = 0
    /\ out = << >>
    /\ err = ""
    /\ page = NoPage

Next ==
    \/ DocsStart
    \/ DocsStep
    \/ DocsReturn
    \/ PlotStart
    \/ PlotStep
    \/ PlotReturn
    \/ HandleResult

Spec == Init /\ [][Next]_vars

---------------------------------------------------------------------------
(* The page: initPyodide and runSimulation *)

\* runSimulation invocations the page model follows.
NumCalls == 2

Calls == 1 .. NumCalls

\* What the policy select and the parameter form hold when a call reads
\* them.  "pBad" is a parameter object on which run_simulation raises
\* (docs: dt = 0; plot: a key left out).
PageShorts == {"CV", "CC", "CCCV"}
PageParams == {"pA", "pB", "pBad"}

\* docs runSimulation's mapping from the select's value to policy_name.
DocsPolicyName(short) ==
    IF short = "CV" THEN "CV_3.7V"
    ELSE IF short = "CC" THEN "CC_25A"
    ELSE IF short = "Pulse" THEN "Pulse_50A"
    ELSE IF short = "Sine" THEN "Sine_60A"
    ELSE ""

NoInputs == [policy |-> "none", params |-> "none"]

IdleCall == [pc |-> "idle", short |-> "none", own |-> NoInputs,
             used |-> NoInputs]

\* The page after its scripts ran.  docs calls initPyodide() as the script
\* loads, so its promise is pending and loadPyodide is under way; plot
\* loads nothing until the first runSimulation.
PageStart(e) ==
    [promise |-> IF e = "docs" THEN "pending" ELSE "null",
     loader |-> IF e = "docs" THEN "load" ELSE "none",
     ready |-> FALSE,
     pyodide |-> 0,
     defined |-> << >>,
     gl |-> NoInputs,
     status |-> IF e = "docs" THEN "Loading Python runtime (Pyodide)..."
                ELSE "",
     pyq |-> << >>,
     calls |-> [i \in Calls |-> IdleCall]]

simIdle == UNCHANGED simVars

(* docs: the body of initPyodide, run once by the page-load call *)

\* pyodide = await loadPyodide(...); then loadPackage("numpy") starts.
DocsLoaded ==
    /\ engine = "docs" /\ page.loader = "load"
    /\ page' = [page EXCEPT !.loader = "pkg",
                            !.defined = Append(@, FALSE),
                            !.pyodide = Len(page.defined) + 1,
                            !.status = "Loading NumPy..."]
    /\ simIdle

\* loadPyodide or loadPackage rejects: the memoised promise is rejected.
DocsLoadFails ==
    /\ engine = "docs" /\ page.loader \in {"load", "pkg"}
    /\ page' = [page EXCEPT !.loader = "failed", !.promise = "rejected"]
    /\ simIdle

\* await pyodide.runPythonAsync(pythonCode): the definitions are queued.
DocsPkgDone ==
    /\ engine = "docs" /\ page.loader = "pkg"
    /\ page' = [page EXCEPT !.loader = "def",
                            !.pyq = Append(@, [kind |-> "defs", call |-> 0,
                                               tgt |-> page.pyodide])]
    /\ simIdle

\* The body's last lines: status, return pyodide; the promise resolves.
DocsInitDone ==
    /\ engine = "docs" /\ page.loader = "defined"
    /\ page' = [page EXCEPT
                   !.loader = "done", !.promise = "resolved",
                   !.status = "Ready. Choose parameters and run the simulation."]
    /\ simIdle

(* docs: runSimulation *)

\* The click up to `await initPyodide()`: read the form, set the status;
\* initPyodide returns the memoised promise.
DocsClick(i) ==
    /\ engine = "docs" /\ page.calls[i].pc = "idle"
    /\ \E s \in PageShorts, q \in PageParams :
          page' = [page EXCEPT
                     !.calls[i] = [pc |-> "awaitInit", short |-> s,
                                   own |-> [policy |-> DocsPolicyName(s),
                                            params |-> q],
                                   used |-> NoInputs],
                     !.status = "Running simulation in Python..."]
    /\ simIdle

\* After the await: py.globals.set twice, then runPythonAsync queues the
\* Python code, which reads the globals when it runs.
DocsResume(i) ==
    /\ engine = "docs" /\ page.calls[i].pc = "awaitInit"
    /\ page.promise = "resolved"
    /\ page' = [page EXCEPT
                   !.gl = page.calls[i].own,
                   !.calls[i].pc = "queued",
                   !.pyq = Append(@, [kind |-> "run", call |-> i,
                                      tgt |-> page.pyodide])]
    /\ simIdle

\* The catch block: the rejected promise, or the exception of the Python
\* run, ends in the status "Error: ...".
DocsCatch(i) ==
    /\ engine = "docs"
    /\ \/ page.calls[i].pc = "awaitInit" /\ page.promise = "rejected"
       \/ page.calls[i].pc = "pyFailed"
    /\ page' = [page EXCEPT !.calls[i].pc = "failed", !.status = "Error"]
    /\ simIdle

\* JSON.parse, the "Done" status, fillMetricStrip, plotResults.
DocsFinish(i) ==
    /\ engine = "docs" /\ page.calls[i].pc = "pyDone"
    /\ page' = [page EXCEPT !.calls[i].pc = "finished", !.status = "Done"]
    /\ simIdle

(* plot: initPyodide, run by each runSimulation until pyodideReady *)

\* runSimulation's `await initPyodide()`: with pyodideReady set it returns
\* at once, otherwise it sets the status and starts loadPyodide.
PlotClick(i) ==
    /\ engine = "plot" /\ page.calls[i].pc = "idle"
    /\ page' = IF page.ready
               THEN [page EXCEPT !.calls[i].pc = "initDone"]
               ELSE [page EXCEPT !.calls[i].pc = "loading",
                                 !.status = "Loading Python runtime"]
    /\ simIdle

\* pyodide = await loadPyodide(...): a new runtime replaces the global;
\* loadPackage starts on it.
PlotLoaded(i) ==
    /\ engine = "plot" /\ page.calls[i].pc = "loading"
    /\ page' = [page EXCEPT !.calls[i].pc = "pkg",
                            !.defined = Append(@, FALSE),
                            !.pyodide = Len(page.defined) + 1]
    /\ simIdle

\* loadPyodide or loadPackage rejects: runSimulation has no catch, the
\* call ends and the status stays as it is.
PlotLoadFails(i) ==
    /\ engine = "plot" /\ page.calls[i].pc \in {"loading", "pkg"}
    /\ page' = [page EXCEPT !.calls[i].pc = "failed"]
    /\ simIdle

\* After loadPackage: the status, then the definitions are queued on the
\* runtime the global names now.
PlotPkgDone(i) ==
    /\ engine = "plot" /\ page.calls[i].pc = "pkg"
    /\ page' = [page EXCEPT
                   !.calls[i].pc = "defining",
                   !.status = "Initializing battery model",
                   !.pyq = Append(@, [kind |-> "defs", call |-> i,
                                      tgt |-> page.pyodide])]
    /\ simIdle

\* pyodideReady = true; status "Ready"; return pyodide.
PlotInitDone(i) ==
    /\ engine = "plot" /\ page.calls[i].pc = "defined"
    /\ page' = [page EXCEPT !.calls[i].pc = "initDone", !.ready = TRUE,
                            !.status = "Ready"]
    /\ simIdle

(* plot: runSimulation after the await *)

\* The status, reading the form, and runPythonAsync with the policy and
\* the parameters written into the code string, on the runtime the global
\* names now.
PlotResume(i) ==
    /\ engine = "plot" /\ page.calls[i].pc = "initDone"
    /\ \E s \in PageShorts, q \in PageParams :
          page' = [page EXCEPT
                     !.calls[i] = [pc |-> "queued", short |-> s,
                                   own |-> [policy |-> s, params |-> q],
                                   used |-> NoInputs],
                     !.status = "Running simulation",
                     !.pyq = Append(@, [kind |-> "run", call |-> i,
                                        tgt |-> page.pyodide])]
    /\ simIdle

\* JSON.parse, plotResults, the "Simulation complete" status.
PlotFinish(i) ==
    /\ engine = "plot" /\ page.calls[i].pc = "pyDone"
    /\ page' = [page EXCEPT !.calls[i].pc = "finished",
                            !.status = "Simulation complete"]
    /\ simIdle

(* The Python runtime: queued code runs in the order it was queued *)

\* The definitions run: the runtime now holds run_simulation.
PyRunDefs ==
    /\ page.pyq # << >> /\ Head(page.pyq).kind = "defs"
    /\ LET task == Head(page.pyq)
       IN  page' = IF engine = "docs"
                   THEN [page EXCEPT !.pyq = Tail(@),
                                     !.defined[task.tgt] = TRUE,
                                     !.loader = "defined"]
                   ELSE [page EXCEPT !.pyq = Tail(@),
                                     !.defined[task.tgt] = TRUE,
                                     !.calls[task.call].pc = "defined"]
    /\ simIdle

\* The inputs a queued run reads when it executes: docs reads the
\* interpreter's globals, plot the literals of its own code string.
InputsRead(task) ==
    IF engine = "docs" THEN page.gl ELSE page.calls[task.call].own

\* A run_simulation call runs.  It raises NameError on a runtime without
\* the definitions, and whatever run_simulation raises on its inputs.
PyRun ==
    /\ page.pyq # << >> /\ Head(page.pyq).kind = "run"
    /\ LET task == Head(page.pyq)
           in == InputsRead(task)
           raised == ~page.defined[task.tgt] \/ in.params = "pBad"
       IN  page' = [page EXCEPT
                      !.pyq = Tail(@),
                      !.calls[task.call].used =
                          IF page.defined[task.tgt] THEN in ELSE NoInputs,
                      !.calls[task.call].pc =
                          IF ~raised THEN "pyDone"
                          ELSE IF engine = "docs" THEN "pyFailed"
                          ELSE "failed"]
    /\ simIdle

PageInit ==
    /\ engine \in {"docs", "plot"}
    /\ policy = ""
    /\ p = << >>
    /\ pc = "page"
    /\ y = NoState
    /\ t = 0
    /\ iter = 0
    /\ out = << >>
    /\ err = ""
    /\ page = PageStart(engine)

PageNext ==
    \/ DocsLoaded
    \/ DocsLoadFails
    \/ DocsPkgDone
    \/ DocsInitDone
    \/ PyRunDefs
    \/ PyRun
    \/ \E i \in Calls :
          \/ DocsClick(i)
          \/ DocsResume(i)
          \/ DocsCatch(i)
          \/ DocsFinish(i)
          \/ PlotClick(i)
          \/ PlotLoaded(i)
          \/ PlotLoadFails(i)
          \/ PlotPkgDone(i)
          \/ PlotInitDone(i)
          \/ PlotResume(i)
          \/ PlotFinish(i)

PageSpec == PageInit /\ [][PageNext]_vars

---------------------------------------------------------------------------
(* The contract of run_simulation and runSimulation *)

\* The five policy identifiers of the contract.
Recognized == {"CV", "CC", "CCCV", "Pulse", "Sine"}

\* The key under which each engine returns a sequence of the trajectory.
KeyFor(e, c) ==
    IF e = "plot" THEN c
    ELSE IF c = "time" THEN "t"
    ELSE IF c = "voltage" THEN "V"
    ELSE IF c = "current" THEN "I"
    ELSE IF c = "resistance" THEN "R"
    ELSE IF c = "temperature" THEN "T"
    ELSE IF c = "soc" THEN "SOC"
    ELSE "SEI"

\* The parameter object as the engine reads it.
Effective == IF engine = "docs" THEN DocsParams(p) ELSE p

\* Every key present and R0, dt, C_nom inside their domains.
InDomain ==
    /\ KeysOf(engine) \subseteq DOMAIN p
    /\ p["R0"] > 0 /\ p["dt"] > 0 /\ p["C_nom"] > 0

\* R0, dt or C_nom outside its domain.
OutOfDomain == \E k \in {"R0", "dt", "C_nom"} : k \in DOMAIN p /\ p[k] <= 0

\* A buffer has been built and not been dropped by an exception.
HasTrajectory == pc \in {"loop", "done"}

\* plot's loop is at a state its next iteration reproduces: the policy's
\* voltage does not depend on t, and the step leaves soc, T and Vc (all the
\* loop condition and the step depend on) as they are.
LoopsForever ==
    /\ engine = "plot" /\ pc = "loop" /\ PlotContinues
    /\ Branch("plot", policy) \in {"CV", "CC", "CCCV", "OCV"}
    /\ \E d \in {derivatives("plot", y, t, policy, p)} :
          /\ d.err = ""
          /\ \E r \in {rk4("plot", y, t, p["dt"], policy, p)} :
                /\ r.err = "" /\ r.y.fin
                /\ r.y.soc = y.soc /\ r.y.T = y.T /\ r.y.Vc = y.Vc

\* C1: run_simulation terminates for every policy and every parameter set
\* with dt > 0: its loop never comes to a state that the next iteration
\* reproduces while the loop condition holds.
C1_NeverLoopsUnboundedly == (InDomain /\ pc = "loop") => ~LoopsForever

\* Whether the returned run had reached the SOC threshold.
ReachedThreshold ==
    y.soc >= (IF engine = "docs" THEN DocsThreshold ELSE PlotThreshold)

\* C2: the returned result carries a status, "completed" when the SOC
\* threshold was reached and "NonConverged" when the cap ended the run.
C2_StatusTellsOutcome ==
    pc = "done" =>
        /\ "status" \in DOMAIN out
        /\ out["status"] =
               IF ReachedThreshold THEN "completed" ELSE "NonConverged"

StrictlyIncreasing(s) == \A k \in 1 .. Len(s) - 1 : s[k] < s[k + 1]

\* C3: every returned result holds time, voltage, current, resistance,
\* temperature, soc and sei, all of one length, and time starts at 0 and
\* is strictly increasing.
C3_ParallelSequences ==
    pc = "done" =>
        /\ \A c \in {"time", "voltage", "current", "resistance",
                     "temperature", "soc", "sei"} :
              /\ KeyFor(engine, c) \in DOMAIN out
              /\ Len(out[KeyFor(engine, c)])
                     = Len(out[KeyFor(engine, "time")])
        /\ \E ts \in {out[KeyFor(engine, "time")]} :
              /\ ts # << >> => ts[1] = 0
              /\ StrictlyIncreasing(ts)

\* C4: of two overlapping runSimulation invocations, each one's Python run
\* reads the policy and the parameters of its own invocation.
C4_RunsUseOwnInputs ==
    \A i \in Calls :
        page.calls[i].pc \in {"pyDone", "finished"}
            => page.calls[i].used = page.calls[i].own

\* C5: a run whose parameter object leaves keys out does not fail.
C5_MissingKeysDefaulted ==
    (KeysOf(engine) \ DOMAIN p # {}) => pc # "error"

\* The number of samples in the buffers.
Samples == IF out = << >> THEN 0 ELSE Len(out[KeyFor(engine, "soc")])

\* C6: a parameter set with R0 <= 0, dt <= 0 or C_nom <= 0 is rejected with
\* InvalidParameter before the loop: no step is taken, no sample produced.
C6_InvalidRejected ==
    OutOfDomain =>
        /\ pc \in {"start", "error"}
        /\ pc = "error" => err = "InvalidParameter"
        /\ iter = 0
        /\ Samples = 0

\* C7: the SEI thickness never decreases from one sample to the next, for
\* every policy and every parameter set.
C7_SeiNonDecreasing ==
    HasTrajectory =>
        \E sei \in {out[KeyFor(engine, "sei")]} :
            \A k \in 1 .. Len(sei) - 1 : sei[k + 1] >= sei[k]

\* C8: under a policy identifier outside the recognized five the run does
\* not fail and is open-circuit: every sample records current 0 and the
\* starting SOC.
C8_UnknownIsOpenCircuit ==
    (policy \notin Recognized /\ InDomain) =>
        /\ pc # "error"
        /\ HasTrajectory =>
              \A k \in 1 .. Samples :
                  /\ out[KeyFor(engine, "current")][k] = 0
                  /\ out[KeyFor(engine, "soc")][k] = p["soc0"]

\* C9: under CCCV the policy selector returns Iset*R + OCV(soc) while
\* OCV(soc) < Vset and Vset once OCV(soc) >= Vset, at every evaluation.
C9_LawOfCCCV ==
    (policy = "CCCV" /\ InDomain /\ pc = "loop") =>
        policy_voltage(engine, policy, t, y, Effective).v
            = IF ocv_from_soc(y.soc) < Effective["Vset"]
              THEN IR(Effective["Iset"], y.R) + ocv_from_soc(y.soc)
              ELSE Effective["Vset"]

\* C10: each of CV, CC, CCCV, Pulse and Sine is dispatched by
\* policy_voltage to its own law, not to the fallback and not to the law
\* of another of the five.
C10_OwnLaw == policy \in Recognized => Branch(engine, policy) = policy

\* The SOC threshold of the engine's loop.
Threshold == IF engine = "docs" THEN DocsThreshold ELSE PlotThreshold

\* The run was started at or above the threshold.
StartsAtThreshold == "soc0" \in DOMAIN p /\ p["soc0"] >= Threshold

\* C11: a run whose soc0 is at or above the SOC threshold takes no step and
\* returns at most one sample with status "completed".
C11_StartAtThreshold ==
    StartsAtThreshold =>
        /\ iter = 0
        /\ Samples <= 1
        /\ pc = "done" =>
              "status" \in DOMAIN out /\ out["status"] = "completed"

\* plot appends the state the step produced, so after a step its last
\* sample is the state vector y itself.
LastSampleIsState == engine = "plot" /\ iter >= 1 /\ Samples = iter

\* C12: once temperature or SEI is not finite the run has aborted with
\* NumericDivergence, and the state that is not finite was not appended.
C12_DivergenceAborts ==
    ~y.fin =>
        /\ pc = "error" /\ err = "NumericDivergence"
        /\ ~LastSampleIsState

\* The constant-current scenario: policy CC, Iset = 6 A, R0 = 0.03 Ohm, soc0 = 0.
ScenarioCC ==
    /\ policy = "CC" /\ InDomain
    /\ p["Iset"] = 6000 /\ p["R0"] = 30 /\ p["soc0"] = 0

\* Every recorded current after the first sample is within 1% of Iset.
CurrentNearIset ==
    \A k \in 2 .. Samples :
        100 * Abs(out[KeyFor(engine, "current")][k] - p["Iset"]) <= p["Iset"]

\* C13: the constant-current scenario returns with the SOC threshold
\* reached, records a current within 1% of Iset in every sample after the
\* first, and records a strictly increasing SOC.
C13_ConstantCurrentRun ==
    ScenarioCC =>
        /\ pc = "done" => ReachedThreshold
        /\ HasTrajectory =>
              /\ CurrentNearIset
              /\ StrictlyIncreasing(out[KeyFor(engine, "soc")])

---------------------------------------------------------------------------
(* ocv_from_soc on its own *)

\* Spacing of the SOC values the lookup is applied to (1e-6).
OcvGrid == 50000

\* The SOC values: a grid from below 0 to above 1, and every breakpoint of
\* the table with its two neighbours.
OcvInputs ==
    {k * OcvGrid : k \in -2 .. (1000000 \div OcvGrid) + 2}
    \cup {OcvData[i][1] + d : i \in 1 .. Len(OcvData), d \in {-1, 0, 1}}

\* Two SOC values are about to be looked up.
OcvInit ==
    /\ engine \in {"docs", "plot"}
    /\ policy = ""
    /\ \E a \in OcvInputs, b \in OcvInputs : p = [soc1 |-> a, soc2 |-> b]
    /\ pc = "ocv"
    /\ y = NoState
    /\ t = 0
    /\ iter = 0
    /\ out = << >>
    /\ err = ""
    /\ page = NoPage

\* ocv_from_soc applied to both.
OcvApply ==
    /\ pc = "ocv"
    /\ out' = [v1 |-> ocv_from_soc(p["soc1"]), v2 |-> ocv_from_soc(p["soc2"])]
    /\ pc' = "ocvDone"
    /\ UNCHANGED <<engine, policy, p, y, t, iter, err, page>>

OcvNext == OcvApply

OcvSpec == OcvInit /\ [][OcvNext]_vars

---------------------------------------------------------------------------
(* Long open-circuit runs of docs, followed from iteration MidStart *)

\* An open-circuit docs run at rest: the fallback policy, no SEI growth
\* (k0 = 0) and the cell at ambient temperature.  Every derivative is 0,
\* so each iteration appends the same sample and leaves y as it is.
IdleRun ==
    /\ engine = "docs" /\ DocsBranch(policy) = "OCV"
    /\ DocsKeys \subseteq DOMAIN p
    /\ p["k0"] = 0 /\ p["T0"] = p["T_amb"] /\ p["dt"] > 0

\* The buffers of such a run after n iterations.
IdleOut(n, prm) ==
    [t |-> [k \in 1 .. n |-> (k - 1) * prm["dt"]],
     V |-> [k \in 1 .. n |-> ocv_from_soc(prm["soc0"])],
     I |-> [k \in 1 .. n |-> 0],
     R |-> [k \in 1 .. n |-> prm["R0"]],
     T |-> [k \in 1 .. n |-> prm["T0"]],
     SOC |-> [k \in 1 .. n |-> prm["soc0"]],
     SEI |-> [k \in 1 .. n |-> 0]]

\* What the loop of such a run looks like after `iter` iterations (an
\* invariant of Spec, and the shape MidInit starts from).
IdleRunShape ==
    (IdleRun /\ pc = "loop") =>
        /\ y = InitialState(p["soc0"], p["R0"], p["T0"])
        /\ t = iter * p["dt"]
        /\ out = IdleOut(iter, p)

\* Step caps N around MAX_POINTS, as t_max for dt = 0.5 s.
MidCaps == {(MAX_POINTS + d) * DocsBase["dt"] : d \in {-1, 0, 2}}

MidInit ==
    /\ engine = "docs"
    /\ policy \in {"", "Idle"}
    /\ \E tm \in MidCaps, s \in {0, 650000, 800000, 950000} :
          p = Params("docs", [k0 |-> 0, t_max |-> tm, soc0 |-> s], {})
    /\ pc = "loop"
    /\ y = InitialState(p["soc0"], p["R0"], p["T0"])
    /\ t = MidStart * p["dt"]
    /\ iter = MidStart
    /\ out = IdleOut(MidStart, p)
    /\ err = ""
    /\ page = NoPage

MidNext ==
    \/ DocsStep
    \/ DocsReturn

MidSpec == MidInit /\ [][MidNext]_vars

\* C15: the trajectory a run returns never holds more than MAX_POINTS
\* points, whatever dt and t_max are.
C15_OutputCapped == pc = "done" => Samples <= MAX_POINTS

\* C16: a run takes at most max_steps steps and at most floor(t_max/dt),
\* and samples no time at or past t_max, for whichever cap the caller
\* supplied.
C16_CapsRespected ==
    (HasTrajectory /\ InDomain) =>
        /\ "max_steps" \in DOMAIN p => iter <= p["max_steps"]
        /\ "t_max" \in DOMAIN p =>
              /\ iter <= Quot(p["t_max"], p["dt"])
              /\ \A k \in 1 .. Samples :
                    out[KeyFor(engine, "time")][k] < p["t_max"]

\* The quantities both engines record in a sample.
Recorded == {"time", "voltage", "current", "temperature", "soc", "sei"}

\* The last sample of the buffers o.
LastSample(o) ==
    [c \in Recorded |-> o[KeyFor(engine, c)][Len(o[KeyFor(engine, c)])]]

\* The sample that pairs time tt with the state yy.
SampleOf(tt, yy) ==
    [c \in Recorded |->
        IF c = "time" THEN tt
        ELSE IF c = "voltage" THEN yy.V
        ELSE IF c = "current" THEN yy.I
        ELSE IF c = "temperature" THEN yy.T
        ELSE IF c = "soc" THEN yy.soc
        ELSE yy.sei]

\* An iteration of the loop that appended a sample.
Sampled == pc = "loop" /\ iter' = iter + 1 /\ 
           Len(out'[KeyFor(engine, "soc")]) = Len(out[KeyFor(engine, "soc")]) + 1

\* C17: the sample an iteration appends pairs the time t of the iteration
\* with the state as it was before the iteration's RK4 step.
C17_SampleBeforeStep ==
    [][Sampled => LastSample(out') = SampleOf(t, y)]_vars

\* C18: the state at or above the SOC threshold is never appended: every
\* recorded SOC is strictly below the threshold at which the loop stops.
C18_TerminalNotRecorded ==
    \A k \in 1 .. Samples : out[KeyFor(engine, "soc")][k] < Threshold

\* An iteration of the loop whose step and refresh went through.
Stepped == pc = "loop" /\ pc' = "loop" /\ iter' = iter + 1 /\ y'.fin

\* The vector the RK4 step returned, before I and V are overwritten: the
\* rates of V and I are 0, so it still holds the old V and I.
BeforeRefresh == [y' EXCEPT !.V = y.V, !.I = y.I]

\* C19: after every RK4 step the stored current is the one the derivative
\* function computes on the post-step state, and the stored V is OCV of
\* the new soc.
C19_RefreshFromNewState ==
    [][Stepped =>
          /\ y'.V = ocv_from_soc(y'.soc)
          /\ y'.I = derivatives(engine, BeforeRefresh, t, policy, Effective).I
      ]_vars

\* The state vector run_simulation builds from the parameters.
FirstState ==
    IF engine = "docs"
    THEN InitialState(Get(p, "soc0"), Get(p, "R0"), Get(p, "T0"))
    ELSE InitialState(p["soc0"], p["R0"], p["T0"])

\* The first sample of the buffers o.
FirstSample(o) == [c \in Recorded |-> o[KeyFor(engine, c)][1]]

\* C20: a run starts at t = 0 from V = OCV(soc0), I = 0, R = R0, T = T0,
\* soc = soc0, SEI = 0, Vc = 0, and the first sample of a non-empty
\* trajectory is exactly this state.
C20_FirstState ==
    /\ (pc = "loop" /\ iter = 0) => (y = FirstState /\ t = 0)
    /\ Samples >= 1 => FirstSample(out) = SampleOf(0, FirstState)

\* The step size the driver hands to the stepper.
StepSize == IF engine = "docs" THEN Get(p, "dt") ELSE p["dt"]

\* What the stepper returns on the driver's present state.
StepperResult == rk4(engine, y, t, StepSize, policy, Effective)

\* The driver's loop runs another iteration, so the stepper is applied to
\* the present state.
Continues == IF engine = "docs" THEN DocsContinues ELSE PlotContinues

\* C21: the derivative function returns 0 for V, I and R, and the state
\* the RK4 stepper returns has the V, I and R of the state it was given.
C21_StepperKeepsVIR ==
    (pc = "loop" /\ Continues) =>
        \E d \in {derivatives(engine, y, t, policy, Effective)},
           r \in {StepperResult} :
            /\ d.err = "" => (d.dV = 0 /\ d.dI = 0 /\ d.dR = 0)
            /\ r.err = "" => (r.y.V = y.V /\ r.y.I = y.I /\ r.y.R = y.R)

\* The stepper moved soc and T of a state that carries a current, and kept
\* its V, I and R.
C21_Witness ==
    /\ pc = "loop" /\ Continues /\ iter >= 1 /\ y.I # 0
    /\ \E r \in {StepperResult} :
          /\ r.err = "" /\ r.y.fin
          /\ r.y.soc # y.soc /\ r.y.T # y.T
          /\ r.y.V = y.V /\ r.y.I = y.I /\ r.y.R = y.R

PulseSelected == Branch(engine, policy) \in {"Pulse", "CCVPulse"}

\* The on and off durations the pulse law reads.
PulseOn == IF engine = "docs" THEN Effective["t_on"] ELSE p["ton"]
PulseOff == IF engine = "docs" THEN Effective["t_off"] ELSE p["toff"]

\* Iset * R + OCV(soc), capped at Vset where the engine caps it.
PulseOnVoltage ==
    LET cc == IR(Effective["Iset"], y.R) + ocv_from_soc(y.soc)
    IN  IF engine = "plot" THEN Min(Effective["Vset"], cc) ELSE cc

\* t falls into the "on" window of the square wave.
InOnWindow == PulseOn > 0 /\ PyMod(t, PulseOn + PulseOff) < PulseOn

\* C23: under the pulse law with t_on >= 0 and t_off >= 0 the selector
\* returns the CC-style voltage exactly in the "on" window and OCV(soc)
\* otherwise (always with t_on = 0), and its evaluation never fails.
C23_PulseLaw ==
    (PulseSelected /\ InDomain /\ PulseOn >= 0 /\ PulseOff >= 0) =>
        /\ pc # "error"
        /\ pc = "loop" =>
              \E pv \in {policy_voltage(engine, policy, t, y, Effective)} :
                  /\ pv.err = ""
                  /\ pv.v = IF InOnWindow THEN PulseOnVoltage
                            ELSE ocv_from_soc(y.soc)

\* The ambient temperature the engine reads.
Ambient == IF engine = "docs" THEN Effective["T_amb"] ELSE p["Tamb"]

\* C24: with dt > 0, T0 > 0 and the ambient temperature > 0, the
\* temperature of every state of the run and of every sample is strictly
\* positive.
C24_TemperaturePositive ==
    (HasTrajectory /\ InDomain /\ p["T0"] > 0 /\ Ambient > 0) =>
        /\ y.fin => y.T > 0
        /\ \A k \in 1 .. Samples : out[KeyFor(engine, "temperature")][k] > 0

\* soc lies in [0, 1].
InUnitInterval(soc) == 0 <= soc /\ soc <= 1000000

\* C25: with soc0 in [0, 1] the SOC of every state of the run and of every
\* sample lies in [0, 1].
C25_SocInUnitInterval ==
    (HasTrajectory /\ InDomain /\ InUnitInterval(p["soc0"])) =>
        /\ y.fin => InUnitInterval(y.soc)
        /\ \A k \in 1 .. Samples :
              InUnitInterval(out[KeyFor(engine, "soc")][k])

\* The runtimes loadPyodide has produced on the page so far.
RuntimesLoaded == Len(page.defined)

\* The runtimes on which the simulation code has been defined.
RuntimesDefined == {r \in 1 .. Len(page.defined) : page.defined[r]}

\* C26: whatever the number and the interleaving of its callers,
\* initPyodide loads the Python runtime at most once per page and defines
\* the simulation code at most once.
C26_InitialisedOnce ==
    /\ RuntimesLoaded <= 1
    /\ Cardinality(RuntimesDefined) <= 1

\* The run_simulation calls handed to runPythonAsync and not yet run.
QueuedRuns == {k \in 1 .. Len(page.pyq) : page.pyq[k].kind = "run"}

\* C27: every run_simulation call handed to runPythonAsync is on a runtime
\* whose code-definition step has finished.
C27_RunsOnDefinedRuntime ==
    \A k \in QueuedRuns : page.defined[page.pyq[k].tgt]

\* The status messages that end a runSimulation: "Done" (docs),
\* "Simulation complete" (plot) and "Error: ..." (docs' catch block).
TerminalStatus == {"Done", "Simulation complete", "Error"}

\* Invocation i returns or throws in this step.
Ends(i) ==
    /\ page.calls[i].pc \notin {"finished", "failed"}
    /\ page'.calls[i].pc \in {"finished", "failed"}

\* C28: a runSimulation invocation leaves the status element at a terminal
\* message when it ends, whether it returns or initPyodide or the Python
\* run throws.
C28_EndsWithTerminalStatus ==
    [][\A i \in Calls : Ends(i) => page'.status \in TerminalStatus]_vars

\* C29: in every recorded sample the voltage is OCV(soc) of the same
\* sample, for every policy and after any number of steps.
C29_VoltageTracksSoc ==
    (HasTrajectory /\ y.fin) =>
        \A k \in 1 .. Samples :
            out[KeyFor(engine, "voltage")][k]
                = ocv_from_soc(out[KeyFor(engine, "soc")][k])

\* A returned trajectory whose soc and voltage both moved between the
\* first two samples, the second voltage being OCV of the second soc.
C29_Witness ==
    /\ pc = "done" /\ Samples >= 2 /\ y.fin
    /\ \E v \in {out[KeyFor(engine, "voltage")]},
          s \in {out[KeyFor(engine, "soc")]} :
          /\ s[2] # s[1] /\ v[2] # v[1]
          /\ v[2] = ocv_from_soc(s[2])

\* The series plotResults draws against the time axis.
PlottedSeries == {"voltage", "current", "temperature", "soc", "sei"}

\* C30: the result handed to plotResults holds every series under the
\* field names plotResults reads: when the run produced a sample, every
\* plotted series is non-empty and as long as the time series.
C30_PlottedSeriesFilled ==
    (pc = "plotted" /\ Samples >= 1) =>
        /\ Len(page.traces.x) = Samples
        /\ \A c \in PlottedSeries :
              /\ page.traces[c] # << >>
              /\ Len(page.traces[c]) = Len(page.traces.x)

===========================================================================
